---- MODULE Spec2Model ----
(***************************************************************************)
(* Model of tools/classcification/train.py: the train() procedure of the   *)
(* VGG16 transfer-learning script, as a sequential state machine.          *)
(*                                                                         *)
(* Python strings are sequences of one-character strings, so that the      *)
(* string operations of the script (concatenation, str/repr of an int,     *)
(* os.path.splitext, os.path.join) are computed character by character.    *)
(* Python's None is the value None below, which is no character sequence.  *)
(***************************************************************************)
EXTENDS Integers, Sequences, FiniteSets, TLC

(* ---------------------------- bounds ----------------------------------- *)
\* largest --epochs of the long training runs
MaxEpochs == 11
\* largest --epochs of the runs that vary the whole configuration
MaxEpochsCfg == 1
\* largest len(dataset)
MaxDatasetLen == 2

(* ---------------------------- strings ---------------------------------- *)
None == <<"None">>

S_CIFAR10 == <<"C", "I", "F", "A", "R", "1", "0">>
S_pets == <<"p", "e", "t", "s">>
S_vgg == <<"v", "g", "g">>
S_resnet == <<"r", "e", "s", "n", "e", "t">>
S_pth == <<".", "p", "t", "h">>
S_pkl == <<".", "p", "k", "l">>
S_empty == <<>>

\* utils.path constants imported by "from utils.path import *"
CIFAR_path == <<"/", "d", "/", "c">>
PETS_path == <<"/", "d", "/", "p">>
CheckPoints == <<"/", "c", "_", "k">>

\* a str is truthy iff it is non-empty; None is falsy
Truthy(s) == s # None /\ Len(s) > 0

Digit(d) ==
    CASE d = 0 -> "0" [] d = 1 -> "1" [] d = 2 -> "2" [] d = 3 -> "3"
      [] d = 4 -> "4" [] d = 5 -> "5" [] d = 6 -> "6" [] d = 7 -> "7"
      [] d = 8 -> "8" [] d = 9 -> "9"

RECURSIVE Repr(_)
\* str(n) / repr(n) of a non-negative int: its decimal digits
Repr(n) == IF n < 10 THEN <<Digit(n)>> ELSE Repr(n \div 10) \o <<Digit(n % 10)>>

\* s.rfind(c), 1-based; 0 when c does not occur
RFind(s, c) ==
    LET I == {i \in 1..Len(s) : s[i] = c}
    IN  IF I = {} THEN 0 ELSE CHOOSE i \in I : \A j \in I : j <= i

\* os.path.splitext(p): <<root, ext>>; the extension starts at the last dot of
\* the last path component, unless that component has only leading dots before it
SplitExt(p) ==
    LET sepIndex == RFind(p, "/")
        dotIndex == RFind(p, ".")
    IN  IF dotIndex > sepIndex /\ \E i \in (sepIndex + 1)..(dotIndex - 1) : p[i] # "."
        THEN <<SubSeq(p, 1, dotIndex - 1), SubSeq(p, dotIndex, Len(p))>>
        ELSE <<p, S_empty>>

\* os.path.join(a, b) on posix
OsPathJoin(a, b) ==
    IF Len(b) > 0 /\ b[1] = "/" THEN b
    ELSE IF Len(a) = 0 \/ a[Len(a)] = "/" THEN a \o b
    ELSE a \o <<"/">> \o b

(* ------------------------- checkpoint names ---------------------------- *)
\* a variant that forgets the separator before the epoch number
EpochCheckpointName_noSeparator(a, e) ==
    a.save_folder \o <<"/">> \o a.dataset \o <<"_">> \o a.basenet
        \o Repr(a.depth) \o Repr(e) \o S_pth

\* the name of the checkpoint written every 5th epoch
EpochCheckpointName(a, e) ==
    a.save_folder \o <<"/">> \o a.dataset \o <<"_">> \o a.basenet
        \o Repr(a.depth) \o <<"_">> \o Repr(e) \o S_pth

\* the name of the checkpoint written at every epoch end
LatestCheckpointName(a) ==
    a.save_folder \o <<"/">> \o a.dataset \o <<"_">> \o a.basenet
        \o Repr(a.depth) \o S_pth

\* a variant that forgets to exclude epoch 0
IsSaveEpoch_anyMultiple(e) == e % 5 = 0

\* the condition under which the epoch-numbered checkpoint is written
IsSaveEpoch(e) == e # 0 /\ e % 5 = 0

(* --------------------------- the weights step -------------------------- *)
\* a variant that compares the extension with both suffixes
ExtSupported_bothCompared(ext) == (ext = S_pkl) \/ (ext = S_pth)

\* the condition  ext == '.pkl' or '.pth'  : Python parses it as
\* (ext == '.pkl') or ('.pth'), and a non-empty string is true
ExtSupported(ext) == (ext = S_pkl) \/ Truthy(S_pth)

(* ----------------------------- meters ---------------------------------- *)
NoMeter == [sum |-> -1, count |-> -1]
NewMeter == [sum |-> 0, count |-> 0]
MeterUpdate(m, val, n) == [sum |-> m.sum + val * n, count |-> m.count + n]
MeterAvg(m) == IF m.count = 0 THEN 0 ELSE m.sum \div m.count

(* ----------------------------- inputs ---------------------------------- *)
Datasets == {S_CIFAR10, S_pets}
DatasetRoots == {CIFAR_path, PETS_path, None}
Basenets == {S_vgg, S_resnet}
Depths == {16, 19}
Resumes == {None, S_empty, <<"w">> \o S_pth, <<"w">> \o S_pkl,
            <<"w", ".", "t", "x", "t">>}
AccumulationSteps == {1, 2}
BatchSizes == {1, 2}
\* what the network does on a batch: top-1 accuracy (percent) and the
\* cross-entropy loss (in units that accumulation_steps divides)
Outcomes == {[acc |-> 100, loss |-> 0], [acc |-> 0, loss |-> 2]}
NoOutcome == [acc |-> -1, loss |-> -1]

VARIABLES
    args,           \* the parsed command line
    cudaAvailable,  \* torch.cuda.is_available()
    pc,             \* position in train()
    err,            \* the exception train() ended with, or "none"
    datasetLen,     \* len(dataset)
    top1, losses,   \* the two AverageMeter objects
    model,          \* [built, wrapped, device, weights: how its weights were set]
    loadPath,       \* the path given to torch.load, or None
    unsupportedMsg, \* 'Sorry only .pth and .pkl files supported.' was printed
    iteration, epoch, batchIdx,
    batchLog,       \* the operations done on the current batch, in order
    outputs,        \* the forward pass's result on the current batch
    loss,           \* the loss tensor's value
    grads,          \* "none", "zero" or "computed"
    optSteps,       \* calls of optimizer.step()
    schedSteps,     \* calls of scheduler.step()
    schedMetric,    \* the value last given to scheduler.step()
    saves,          \* the torch.save calls so far: [site, name, epoch]
    ret             \* the value train() returned

vars == <<args, cudaAvailable, pc, err, datasetLen, top1, losses, model, loadPath,
          unsupportedMsg, iteration, epoch, batchIdx, batchLog, outputs, loss,
          grads, optSteps, schedSteps, schedMetric, saves, ret>>

NoModel == [built |-> FALSE, wrapped |-> FALSE, device |-> "cpu", weights |-> "none"]

\* the defaults of parse_args(), with the dataset and its root chosen together
DefaultArgs(ds, ep, acc, bs) ==
    [dataset |-> ds,
     dataset_root |-> IF ds = S_CIFAR10 THEN CIFAR_path ELSE PETS_path,
     basenet |-> S_vgg, depth |-> 16, cuda |-> TRUE, resume |-> None,
     save_folder |-> CheckPoints, epochs |-> ep, accumulation_steps |-> acc,
     batch_size |-> bs]

\* long runs of the default configuration on a CUDA machine
InitRun ==
    /\ \E ds \in Datasets, ep \in 0..MaxEpochs, acc \in AccumulationSteps,
          bs \in BatchSizes : args = DefaultArgs(ds, ep, acc, bs)
    /\ cudaAvailable = TRUE

\* short runs of every configuration
InitCfg ==
    /\ args \in [dataset : Datasets, dataset_root : DatasetRoots, basenet : Basenets,
                 depth : Depths, cuda : BOOLEAN, resume : Resumes,
                 save_folder : {CheckPoints}, epochs : 0..MaxEpochsCfg,
                 accumulation_steps : AccumulationSteps, batch_size : {2}]
    /\ cudaAvailable \in BOOLEAN

Init ==
    /\ InitRun \/ InitCfg
    /\ pc = "dataset"
    /\ err = "none"
    /\ datasetLen = 0
    /\ top1 = NoMeter
    /\ losses = NoMeter
    /\ model = NoModel
    /\ loadPath = None
    /\ unsupportedMsg = FALSE
    /\ iteration = 0
    /\ epoch = 0
    /\ batchIdx = 0
    /\ batchLog = <<>>
    /\ outputs = NoOutcome
    /\ loss = 0
    /\ grads = "none"
    /\ optSteps = 0
    /\ schedSteps = 0
    /\ schedMetric = 0
    /\ saves = <<>>
    /\ ret = <<>>

Raise(e) == pc' = "error" /\ err' = e


(* --------------------------- the data loader --------------------------- *)
\* the batches of one pass over the DataLoader (drop_last is False)
NumBatches == (datasetLen + args.batch_size - 1) \div args.batch_size
\* images.size(0) of batch i (0-based)
BatchLen(i) ==
    IF datasetLen - i * args.batch_size < args.batch_size
    THEN datasetLen - i * args.batch_size ELSE args.batch_size

(* ------------------------------ start-up ------------------------------- *)
\* 4. Ready dataset, the DataLoader and the two meters
ReadyDataset ==
    /\ pc = "dataset"
    /\ IF args.dataset = S_CIFAR10 /\ args.dataset_root # CIFAR_path
       THEN /\ Raise("ValueError")
            /\ UNCHANGED <<datasetLen, top1, losses>>
       ELSE IF args.dataset = S_pets /\ args.dataset_root # PETS_path
       THEN /\ Raise("ValueError")
            /\ UNCHANGED <<datasetLen, top1, losses>>
       ELSE /\ \E n \in 0..MaxDatasetLen : datasetLen' = n
            /\ top1' = NewMeter
            /\ losses' = NewMeter
            /\ pc' = "model"
            /\ err' = err
    /\ UNCHANGED <<args, cudaAvailable, model, loadPath, unsupportedMsg, iteration,
                   epoch, batchIdx, batchLog, outputs, loss, grads, optSteps,
                   schedSteps, schedMetric, saves, ret>>

\* a variant that builds the vgg16 model whatever the depth asked for
DefineModel_anyDepth ==
    /\ pc = "model"
    /\ IF args.basenet = S_vgg
       THEN /\ model' = [model EXCEPT !.built = TRUE, !.weights = "pretrained"]
            /\ pc' = "parallel"
            /\ err' = err
       ELSE /\ Raise("ValueError")
            /\ model' = model
    /\ UNCHANGED <<args, cudaAvailable, datasetLen, top1, losses, loadPath,
                   unsupportedMsg, iteration, epoch, batchIdx, batchLog, outputs,
                   loss, grads, optSteps, schedSteps, schedMetric, saves, ret>>

\* 5. Define train model
DefineModel ==
    /\ pc = "model"
    /\ IF args.basenet = S_vgg
       THEN IF args.depth = 16
            THEN /\ model' = [model EXCEPT !.built = TRUE, !.weights = "pretrained"]
                 /\ pc' = "parallel"
                 /\ err' = err
            ELSE /\ Raise("ValueError")
                 /\ model' = model
       ELSE /\ Raise("ValueError")
            /\ model' = model
    /\ UNCHANGED <<args, cudaAvailable, datasetLen, top1, losses, loadPath,
                   unsupportedMsg, iteration, epoch, batchIdx, batchLog, outputs,
                   loss, grads, optSteps, schedSteps, schedMetric, saves, ret>>

\* the placement of the model: with --cuda and no CUDA device neither branch runs
WrapModel ==
    /\ pc = "parallel"
    /\ IF args.cuda
       THEN IF cudaAvailable
            THEN model' = [model EXCEPT !.wrapped = TRUE, !.device = "cuda"]
            ELSE model' = model
       ELSE model' = [model EXCEPT !.wrapped = TRUE]
    /\ pc' = "weights"
    /\ UNCHANGED <<args, cudaAvailable, err, datasetLen, top1, losses, loadPath,
                   unsupportedMsg, iteration, epoch, batchIdx, batchLog, outputs,
                   loss, grads, optSteps, schedSteps, schedMetric, saves, ret>>

\* 6. Loading weights (torch.load succeeds), then model.train(), iteration = 0,
\* 7. the optimizer, the criterion and the scheduler
LoadWeights ==
    /\ pc = "weights"
    /\ IF Truthy(args.resume)
       THEN IF ExtSupported(SplitExt(args.resume)[2])
            THEN /\ loadPath' = OsPathJoin(args.save_folder, args.resume)
                 /\ model' = [model EXCEPT !.weights = "loaded"]
                 /\ unsupportedMsg' = unsupportedMsg
            ELSE /\ unsupportedMsg' = TRUE
                 /\ UNCHANGED <<loadPath, model>>
       ELSE IF args.resume = None
            THEN /\ model' = [model EXCEPT !.weights = "init"]
                 /\ UNCHANGED <<loadPath, unsupportedMsg>>
            ELSE UNCHANGED <<loadPath, model, unsupportedMsg>>
    /\ iteration' = 0
    /\ pc' = "epoch_head"
    /\ UNCHANGED <<args, cudaAvailable, err, datasetLen, top1, losses, epoch,
                   batchIdx, batchLog, outputs, loss, grads, optSteps, schedSteps,
                   schedMetric, saves, ret>>

\* 6. Loading weights, when torch.load or load_state_dict raises (no such
\* file, not a state dict of this model)
LoadWeightsRaises ==
    /\ pc = "weights"
    /\ Truthy(args.resume)
    /\ ExtSupported(SplitExt(args.resume)[2])
    /\ loadPath' = OsPathJoin(args.save_folder, args.resume)
    /\ Raise("LoadError")
    /\ UNCHANGED <<args, cudaAvailable, datasetLen, top1, losses, model,
                   unsupportedMsg, iteration, epoch, batchIdx, batchLog, outputs,
                   loss, grads, optSteps, schedSteps, schedMetric, saves, ret>>

(* ----------------------------- the loops ------------------------------- *)
\* a variant that starts every epoch with fresh meters
EpochHead_resetMeters ==
    /\ pc = "epoch_head"
    /\ epoch < args.epochs
    /\ batchIdx' = 0
    /\ top1' = NewMeter
    /\ losses' = NewMeter
    /\ pc' = "batch_head"
    /\ UNCHANGED <<args, cudaAvailable, err, datasetLen, model,
                   loadPath, unsupportedMsg, iteration, epoch, batchLog, outputs,
                   loss, grads, optSteps, schedSteps, schedMetric, saves, ret>>

\* for epoch in range(args.epochs): one more pass
EpochHead ==
    /\ pc = "epoch_head"
    /\ epoch < args.epochs
    /\ batchIdx' = 0
    /\ pc' = "batch_head"
    /\ UNCHANGED <<args, cudaAvailable, err, datasetLen, top1, losses, model,
                   loadPath, unsupportedMsg, iteration, epoch, batchLog, outputs,
                   loss, grads, optSteps, schedSteps, schedMetric, saves, ret>>

\* for data in dataloader: the next batch; iteration += 1
NextBatch ==
    /\ pc = "batch_head"
    /\ batchIdx < NumBatches
    /\ iteration' = iteration + 1
    /\ batchLog' = <<"iteration">>
    /\ pc' = "to_device"
    /\ UNCHANGED <<args, cudaAvailable, err, datasetLen, top1, losses, model,
                   loadPath, unsupportedMsg, epoch, batchIdx, outputs, loss, grads,
                   optSteps, schedSteps, schedMetric, saves, ret>>

\* images.cuda(), targets.cuda(): raises where there is no CUDA device
ToDevice ==
    /\ pc = "to_device"
    /\ IF args.cuda /\ ~cudaAvailable
       THEN Raise("CudaError")
       ELSE pc' = "zero_grad" /\ err' = err
    /\ UNCHANGED <<args, cudaAvailable, datasetLen, top1, losses, model, loadPath,
                   unsupportedMsg, iteration, epoch, batchIdx, batchLog, outputs,
                   loss, grads, optSteps, schedSteps, schedMetric, saves, ret>>

ZeroGrad ==
    /\ pc = "zero_grad"
    /\ grads' = "zero"
    /\ batchLog' = Append(batchLog, "zero_grad")
    /\ pc' = "forward"
    /\ UNCHANGED <<args, cudaAvailable, err, datasetLen, top1, losses, model,
                   loadPath, unsupportedMsg, iteration, epoch, batchIdx, outputs,
                   loss, optSteps, schedSteps, schedMetric, saves, ret>>

\* 11. Forward
Forward ==
    /\ pc = "forward"
    /\ \E o \in Outcomes : outputs' = o
    /\ batchLog' = Append(batchLog, "forward")
    /\ pc' = "loss"
    /\ UNCHANGED <<args, cudaAvailable, err, datasetLen, top1, losses, model,
                   loadPath, unsupportedMsg, iteration, epoch, batchIdx, loss,
                   grads, optSteps, schedSteps, schedMetric, saves, ret>>

\* loss = criterion(outputs, targets.long()); loss = loss / accumulation_steps
ComputeLoss ==
    /\ pc = "loss"
    /\ loss' = outputs.loss \div args.accumulation_steps
    /\ batchLog' = Append(batchLog, "loss")
    /\ pc' = "backward"
    /\ UNCHANGED <<args, cudaAvailable, err, datasetLen, top1, losses, model,
                   loadPath, unsupportedMsg, iteration, epoch, batchIdx, outputs,
                   grads, optSteps, schedSteps, schedMetric, saves, ret>>

\* 12. Backward
Backward ==
    /\ pc = "backward"
    /\ grads' = "computed"
    /\ batchLog' = Append(batchLog, "backward")
    /\ pc' = "step"
    /\ UNCHANGED <<args, cudaAvailable, err, datasetLen, top1, losses, model,
                   loadPath, unsupportedMsg, iteration, epoch, batchIdx, outputs,
                   loss, optSteps, schedSteps, schedMetric, saves, ret>>

\* a variant that steps the optimizer every accumulation_steps batches only
OptimizerStep_accumulate ==
    /\ pc = "step"
    /\ optSteps' = IF iteration % args.accumulation_steps = 0
                   THEN optSteps + 1 ELSE optSteps
    /\ batchLog' = Append(batchLog, "step")
    /\ pc' = "metric"
    /\ UNCHANGED <<args, cudaAvailable, err, datasetLen, top1, losses, model, loadPath,
                   unsupportedMsg, iteration, epoch, batchIdx, outputs, loss, grads,
                   schedSteps, schedMetric, saves, ret>>

\* optimizer.step(), on every batch
OptimizerStep ==
    /\ pc = "step"
    /\ optSteps' = optSteps + 1
    /\ batchLog' = Append(batchLog, "step")
    /\ pc' = "metric"
    /\ UNCHANGED <<args, cudaAvailable, err, datasetLen, top1, losses, model, loadPath,
                   unsupportedMsg, iteration, epoch, batchIdx, outputs, loss, grads,
                   schedSteps, schedMetric, saves, ret>>

\* a variant that steps the scheduler after every batch
MetricUpdate_schedulerStep ==
    /\ pc = "metric"
    /\ top1' = MeterUpdate(top1, outputs.acc, BatchLen(batchIdx))
    /\ losses' = MeterUpdate(losses, loss, BatchLen(batchIdx))
    /\ batchLog' = Append(batchLog, "metric")
    /\ batchIdx' = batchIdx + 1
    /\ schedSteps' = schedSteps + 1
    /\ schedMetric' = MeterAvg(losses')
    /\ pc' = "batch_head"
    /\ UNCHANGED <<args, cudaAvailable, err, datasetLen, model, loadPath,
                   unsupportedMsg, iteration, epoch, outputs, loss, grads, optSteps,
                   saves, ret>>

\* 13. Measure accuracy and record loss
MetricUpdate ==
    /\ pc = "metric"
    /\ top1' = MeterUpdate(top1, outputs.acc, BatchLen(batchIdx))
    /\ losses' = MeterUpdate(losses, loss, BatchLen(batchIdx))
    /\ batchLog' = Append(batchLog, "metric")
    /\ batchIdx' = batchIdx + 1
    /\ pc' = "batch_head"
    /\ UNCHANGED <<args, cudaAvailable, err, datasetLen, model, loadPath,
                   unsupportedMsg, iteration, epoch, outputs, loss, grads, optSteps,
                   schedSteps, schedMetric, saves, ret>>

\* scheduler.step(losses.avg), after the batch loop
SchedulerStep ==
    /\ pc = "batch_head"
    /\ batchIdx >= NumBatches
    /\ schedSteps' = schedSteps + 1
    /\ schedMetric' = MeterAvg(losses)
    /\ pc' = "save_epoch"
    /\ UNCHANGED <<args, cudaAvailable, err, datasetLen, top1, losses, model,
                   loadPath, unsupportedMsg, iteration, epoch, batchIdx, batchLog,
                   outputs, loss, grads, optSteps, saves, ret>>

\* 14. Save train model: the epoch-numbered checkpoint
SaveEpochCheckpoint ==
    /\ pc = "save_epoch"
    /\ IF IsSaveEpoch(epoch)
       THEN saves' = Append(saves, [site |-> "epoch",
                                    name |-> EpochCheckpointName(args, epoch),
                                    epoch |-> epoch])
       ELSE saves' = saves
    /\ pc' = "save_latest"
    /\ UNCHANGED <<args, cudaAvailable, err, datasetLen, top1, losses, model,
                   loadPath, unsupportedMsg, iteration, epoch, batchIdx, batchLog,
                   outputs, loss, grads, optSteps, schedSteps, schedMetric, ret>>

\* a variant that writes the end-of-epoch checkpoint at the fixed interval only
SaveLatest_onInterval ==
    /\ pc = "save_latest"
    /\ saves' = IF IsSaveEpoch(epoch)
                THEN Append(saves, [site |-> "latest",
                                    name |-> LatestCheckpointName(args),
                                    epoch |-> epoch])
                ELSE saves
    /\ epoch' = epoch + 1
    /\ pc' = "epoch_head"
    /\ UNCHANGED <<args, cudaAvailable, err, datasetLen, top1, losses, model,
                   loadPath, unsupportedMsg, iteration, batchIdx, batchLog, outputs,
                   loss, grads, optSteps, schedSteps, schedMetric, ret>>

\* the checkpoint written at every epoch end; then the next epoch
SaveLatest ==
    /\ pc = "save_latest"
    /\ saves' = Append(saves, [site |-> "latest",
                                name |-> LatestCheckpointName(args),
                                epoch |-> epoch])
    /\ epoch' = epoch + 1
    /\ pc' = "epoch_head"
    /\ UNCHANGED <<args, cudaAvailable, err, datasetLen, top1, losses, model,
                   loadPath, unsupportedMsg, iteration, batchIdx, batchLog, outputs,
                   loss, grads, optSteps, schedSteps, schedMetric, ret>>

\* the epoch loop is over: return top1.avg, losses.avg
Finish ==
    /\ pc = "epoch_head"
    /\ epoch >= args.epochs
    /\ ret' = <<MeterAvg(top1), MeterAvg(losses)>>
    /\ pc' = "done"
    /\ UNCHANGED <<args, cudaAvailable, err, datasetLen, top1, losses, model,
                   loadPath, unsupportedMsg, iteration, epoch, batchIdx, batchLog,
                   outputs, loss, grads, optSteps, schedSteps, schedMetric, saves>>

Next ==
    \/ ReadyDataset
    \/ DefineModel
    \/ WrapModel
    \/ LoadWeights
    \/ LoadWeightsRaises
    \/ EpochHead
    \/ NextBatch
    \/ ToDevice
    \/ ZeroGrad
    \/ Forward
    \/ ComputeLoss
    \/ Backward
    \/ OptimizerStep
    \/ MetricUpdate
    \/ SchedulerStep
    \/ SaveEpochCheckpoint
    \/ SaveLatest
    \/ Finish

Spec == Init /\ [][Next]_vars


(* ------------------- reading a checkpoint name back -------------------- *)
BaseName(p) == SubSeq(p, RFind(p, "/") + 1, Len(p))
DirName(p) == SubSeq(p, 1, RFind(p, "/") - 1)

RECURSIVE Split(_, _)
\* s.split(c)
Split(s, c) ==
    LET I == {i \in 1..Len(s) : s[i] = c}
    IN  IF I = {} THEN <<s>>
        ELSE LET k == CHOOSE i \in I : \A j \in I : i <= j
             IN  <<SubSeq(s, 1, k - 1)>> \o Split(SubSeq(s, k + 1, Len(s)), c)

DigitChars == {"0", "1", "2", "3", "4", "5", "6", "7", "8", "9"}
DigitVal(c) == CHOOSE d \in 0..9 : Digit(d) = c

RECURSIVE ParseInt(_)
\* int(s) of a string of decimal digits; -1 for any other string
ParseInt(s) ==
    IF Len(s) = 0 \/ \E i \in 1..Len(s) : s[i] \notin DigitChars THEN -1
    ELSE IF Len(s) = 1 THEN DigitVal(s[1])
    ELSE 10 * ParseInt(SubSeq(s, 1, Len(s) - 1)) + DigitVal(s[Len(s)])

\* the fields of a checkpoint name: the file name without its extension, cut at "_"
NameFields(p) == Split(SplitExt(BaseName(p))[1], "_")
NameExt(p) == SplitExt(BaseName(p))[2]

SavesAt(site) == {i \in 1..Len(saves) : saves[i].site = site}

StartupPcs == {"dataset", "model", "parallel", "weights"}
InBatchPcs == {"to_device", "zero_grad", "forward", "loss", "backward", "step", "metric"}
BatchLoopPcs == InBatchPcs \cup {"batch_head"}
EpochEndPcs == {"save_epoch", "save_latest"}
LoopPcs == BatchLoopPcs \cup EpochEndPcs \cup {"epoch_head"}

(* ------------------------------- C1 ------------------------------------ *)
\* C1: every epoch that has completed its batch loop has had its end-of-epoch
\* checkpoint written before the next epoch starts or the run ends: whenever the
\* loop is at the head of epoch e, inside its batches, or train() has returned,
\* the end-of-epoch save has been called once for each of the epochs before, in
\* order, and the number of those saves equals the number of completed batch
\* loops (scheduler steps).
C1_EveryEpochCheckpointed ==
    pc \in BatchLoopPcs \cup {"epoch_head", "done"} =>
        /\ Cardinality(SavesAt("latest")) = schedSteps
        /\ \A e \in 0..(schedSteps - 1) :
              \E i \in SavesAt("latest") : saves[i].epoch = e
        /\ pc = "done" => Cardinality(SavesAt("latest")) = args.epochs

C1_Witness ==
    /\ pc = "done"
    /\ args.epochs >= 2
    /\ Cardinality(SavesAt("latest")) = args.epochs

(* ------------------------------- C2 ------------------------------------ *)
\* C2: the epoch-numbered checkpoint is written at the end of epoch e iff e # 0
\* and e is a multiple of 5, under the name
\* <save_folder>/<dataset>_<basenet><depth>_<epoch>.pth, and two different
\* epochs never write the same epoch-numbered name.
C2_EpochNumberedCheckpoints ==
    /\ \A e \in 0..MaxEpochs + 1 :
          (e < epoch \/ (e = epoch /\ pc = "save_latest")) =>
              ((\E i \in SavesAt("epoch") : saves[i].epoch = e)
                  <=> (e # 0 /\ e % 5 = 0))
    /\ \A i \in SavesAt("epoch") :
          saves[i].name = args.save_folder \o <<"/">> \o args.dataset \o <<"_">>
                            \o args.basenet \o Repr(args.depth) \o <<"_">>
                            \o Repr(saves[i].epoch) \o S_pth
    /\ \A i, j \in SavesAt("epoch") :
          saves[i].epoch # saves[j].epoch => saves[i].name # saves[j].name

C2_Witness ==
    /\ pc = "done"
    /\ \E i, j \in SavesAt("epoch") : saves[i].epoch = 5 /\ saves[j].epoch = 10
    /\ ~ \E i \in SavesAt("epoch") : saves[i].epoch = 0

(* ------------------------------- C3 ------------------------------------ *)
\* C3 as stated: the name of every checkpoint file written, the fixed-interval
\* one and the end-of-epoch one alike, encodes the dataset, the model name, the
\* depth and the epoch number.
C3_AllNamesEncodeEpoch ==
    \A i \in 1..Len(saves) :
        LET f == NameFields(saves[i].name)
        IN  /\ Len(f) = 3
            /\ f[1] = args.dataset
            /\ f[2] = args.basenet \o Repr(args.depth)
            /\ ParseInt(f[3]) = saves[i].epoch

\* C3 amended: the name of every checkpoint file written is in save_folder, ends
\* in .pth and encodes the dataset, the model name and the depth; the
\* fixed-interval one also encodes the epoch number, the end-of-epoch one has no
\* epoch field (it is the same name at every epoch).
C3_NamesEncodeConfig ==
    \A i \in 1..Len(saves) :
        LET f == NameFields(saves[i].name)
        IN  /\ DirName(saves[i].name) = args.save_folder
            /\ NameExt(saves[i].name) = S_pth
            /\ Len(f) >= 2
            /\ f[1] = args.dataset
            /\ f[2] = args.basenet \o Repr(args.depth)
            /\ saves[i].site = "epoch" =>
                  Len(f) = 3 /\ ParseInt(f[3]) = saves[i].epoch
            /\ saves[i].site = "latest" => Len(f) = 2

C3_Witness ==
    /\ \E i \in SavesAt("epoch") : saves[i].epoch = 10
    /\ \E i \in SavesAt("latest") : saves[i].epoch = 10

(* ------------------------------- C4 ------------------------------------ *)
BadConfig ==
    \/ args.dataset = S_CIFAR10 /\ args.dataset_root # CIFAR_path
    \/ args.dataset = S_pets /\ args.dataset_root # PETS_path
    \/ args.basenet # S_vgg
    \/ args.depth # 16

NoTrainingYet ==
    /\ iteration = 0
    /\ optSteps = 0
    /\ schedSteps = 0
    /\ saves = <<>>

\* C4: with a dataset root that is missing or does not match the dataset, a
\* basenet other than 'vgg' or a depth other than 16, train() never gets past
\* the start-up, can only end in a ValueError, and no batch is processed, no
\* scheduler step taken and no checkpoint written, before the error or after it
\* (nothing at all happens after an error).
C4_BadConfigIsFatal ==
    /\ [](BadConfig =>
            /\ pc \in {"dataset", "model", "error"}
            /\ pc = "error" => err = "ValueError"
            /\ NoTrainingYet)
    /\ [][pc = "error" => pc' = "error" /\ UNCHANGED vars]_vars

C4_Witness ==
    /\ pc = "error"
    /\ err = "ValueError"
    /\ args.basenet = S_vgg
    /\ args.depth = 19
    /\ top1 = NewMeter
    /\ NoTrainingYet

(* ------------------------------- C5 ------------------------------------ *)
BadResumeExt ==
    /\ Truthy(args.resume)
    /\ SplitExt(args.resume)[2] \notin {S_pth, S_pkl}

\* C5: when --resume names a file whose extension is neither .pth nor .pkl, no
\* weights are loaded from it and the run does not get to the training loop.
C5_BadExtensionIsFatal ==
    BadResumeExt => model.weights # "loaded" /\ pc \notin LoopPcs \cup {"done"}

(* ------------------------------- C6 ------------------------------------ *)
ValidArgs ==
    /\ \/ args.dataset = S_CIFAR10 /\ args.dataset_root = CIFAR_path
       \/ args.dataset = S_pets /\ args.dataset_root = PETS_path
    /\ args.basenet = S_vgg
    /\ args.depth = 16
    /\ args.epochs >= 0

\* C6: given valid arguments, whatever --cuda is and whether or not there is a
\* CUDA device, train() does not end in an error and, when it returns, has run
\* exactly `epochs` passes of the epoch loop and written a checkpoint. (Stated
\* here for a resume file that could be read, and with the checkpoint asked of
\* the runs of at least one epoch only: the run of zero epochs writes none.)
C6_ValidArgsRunToCompletion ==
    (ValidArgs /\ err # "LoadError") =>
        /\ pc # "error"
        /\ pc = "done" =>
              /\ schedSteps = args.epochs
              /\ epoch = args.epochs
              /\ args.epochs >= 1 => saves # <<>>

(* ------------------------------- C7 ------------------------------------ *)
FixedOrder ==
    <<"iteration", "zero_grad", "forward", "loss", "backward", "step", "metric">>

BatchInFixedOrder ==
    /\ Len(batchLog) <= Len(FixedOrder)
    /\ batchLog = SubSeq(FixedOrder, 1, Len(batchLog))
    /\ (pc = "batch_head" /\ batchIdx > 0) => batchLog = FixedOrder

\* C7 as stated: every batch goes through the fixed order, and at every point
\* the number of optimizer steps taken equals the iteration counter.
C7_StepsEqualIterationAlways ==
    /\ BatchInFixedOrder
    /\ optSteps = iteration

\* C7 amended: every batch goes through the fixed order, with exactly one
\* optimizer step per batch whatever accumulation_steps is; whenever no batch is
\* in progress the number of optimizer steps equals the iteration counter, and
\* inside a batch the counter is at most one ahead of it (from its increment
\* until the optimizer step); the counter is never reset between epochs.
C7_OneStepPerBatch ==
    /\ BatchInFixedOrder
    /\ optSteps <= iteration
    /\ iteration <= optSteps + 1
    /\ pc \notin InBatchPcs \cup {"error"} => optSteps = iteration
    /\ pc \in {"metric"} => optSteps = iteration
    /\ pc \in {"to_device", "zero_grad", "forward", "loss", "backward", "step"}
          => iteration = optSteps + 1
    /\ pc = "batch_head" => iteration = epoch * NumBatches + batchIdx

C7_Witness ==
    /\ pc = "batch_head"
    /\ epoch >= 1
    /\ batchIdx = 2
    /\ args.accumulation_steps = 2
    /\ optSteps = iteration
    /\ iteration >= 4

(* ------------------------------- C8 ------------------------------------ *)
\* C8: in every epoch the scheduler is stepped exactly once, after the last
\* batch of the epoch and before the epoch's checkpoint is saved: while epoch e
\* is in its batch loop the scheduler has been stepped e times and the
\* checkpoints of all e earlier epochs are written; while epoch e is saving, it
\* has been stepped e + 1 times and all batches of the epoch are done.
C8_SchedulerOncePerEpoch ==
    /\ pc \in BatchLoopPcs \cup {"epoch_head", "done"} =>
          /\ schedSteps = epoch
          /\ Cardinality(SavesAt("latest")) = epoch
    /\ pc \in EpochEndPcs =>
          /\ schedSteps = epoch + 1
          /\ batchIdx = NumBatches
          /\ iteration = (epoch + 1) * NumBatches
          /\ Cardinality(SavesAt("latest")) = epoch
          /\ \A i \in SavesAt("latest") : saves[i].epoch < epoch

C8_Witness ==
    /\ pc = "save_epoch"
    /\ epoch >= 1
    /\ NumBatches >= 2
    /\ schedSteps = epoch + 1

(* ------------------------------- C9 ------------------------------------ *)
\* the samples of the batches done so far in the current epoch
SamplesThisEpoch ==
    IF batchIdx * args.batch_size < datasetLen
    THEN batchIdx * args.batch_size ELSE datasetLen

\* C9: the two meters are created once, before the epoch loop, and never reset:
\* their sample counts never decrease and always hold every sample of every
\* batch done since the start of the run, so the value given to the scheduler at
\* the end of epoch e, and the values returned, are averages over all batches of
\* the epochs 0..e.
C9_MetersAggregateWholeRun ==
    /\ [](pc \in LoopPcs \cup {"done"} =>
            /\ losses.count = top1.count
            /\ pc \in BatchLoopPcs =>
                  losses.count = epoch * datasetLen + SamplesThisEpoch
            /\ pc = "save_epoch" =>
                  /\ losses.count = (epoch + 1) * datasetLen
                  /\ schedMetric = MeterAvg(losses)
            /\ pc = "done" =>
                  /\ losses.count = args.epochs * datasetLen
                  /\ ret = <<MeterAvg(top1), MeterAvg(losses)>>)
    /\ [][losses.count' >= losses.count /\ top1.count' >= top1.count]_vars

C9_Witness ==
    /\ pc = "save_epoch"
    /\ epoch = 2
    /\ datasetLen = 2
    /\ losses.count = 6
    /\ losses.sum > 0

(* ------------------------------- C10 ----------------------------------- *)
\* C10: in the weights step, loading a checkpoint and re-initialising are
\* mutually exclusive and decided by --resume alone: weights_init is applied iff
\* resume is None, a checkpoint is loaded, from save_folder/resume, iff resume
\* is a non-empty string, whatever its extension, and the 'only .pth and .pkl
\* files supported' branch is never taken.
C10_ResumeDecidesWeights ==
    /\ ~unsupportedMsg
    /\ pc \in LoopPcs \cup {"done"} =>
          /\ model.weights = "init" <=> args.resume = None
          /\ model.weights = "loaded" <=> Truthy(args.resume)
          /\ model.weights = "loaded" =>
                loadPath = args.save_folder \o <<"/">> \o args.resume
          /\ model.weights # "loaded" => loadPath = None
          /\ model.weights \in {"init", "loaded", "pretrained"}

C10_Witness ==
    /\ pc = "epoch_head"
    /\ BadResumeExt
    /\ model.weights = "loaded"

====
